---- MODULE Spec2Model ----
(***************************************************************************)
(* Deep Research Agent: the streaming presenter (src/main.py) and the      *)
(* email tool (src/my_agents/email_agent.py).                              *)
(*                                                                         *)
(* Two specifications share the module:                                    *)
(*   Spec       the UI triggers, the async generator run(query) and the    *)
(*              research pipeline it delegates to;                         *)
(*   EmailSpec  invocations of send_email(subject, html_body) against the  *)
(*              process environment and the email transport.               *)
(* research_manager.ResearchManager is imported by main.py but its source  *)
(* is not part of src/: the pipeline operators are written from spec.md    *)
(* (sections 4.1, 7, 8 and 9).                                             *)
(***************************************************************************)
EXTENDS Integers, Sequences, FiniteSets, TLC

VARIABLES
    pc,         \* per call of run: position of the async generator
    arg,        \* per call: the query argument of run(query)
    sess,       \* per call: the UI session whose event made the call
    chunk,      \* per call: the local variable chunk of the async for
    received,   \* per call: the values the consumer got from the generator
    rendered,   \* per call: the report region's content after each render
    report,     \* per session: the content of the gr.Markdown report region
    mgr,        \* per ResearchManager instance: state of its run(query)
    invoked,    \* per instance: the queries its run was invoked with
    emitted,    \* per instance: the chunks it has emitted, in order
    epc,        \* send_email: position in the function body
    subject,    \* send_email: argument subject
    html_body,  \* send_email: argument html_body
    env,        \* os.environ, process-wide
    api_key,    \* the module global resend.api_key
    params,     \* send_email: the local variable params
    sends,      \* the requests handed to resend.Emails.send in this invocation
    outcome     \* what the invocation handed to its caller

presenterVars ==
    <<pc, arg, sess, chunk, received, rendered, report, mgr, invoked, emitted>>

emailVars == <<epc, subject, html_body, env, api_key, params, sends, outcome>>

vars == <<presenterVars, emailVars>>

-----------------------------------------------------------------------------
(* Bounds of the model *)

MaxCalls == 2

MaxChunks == 2

NumSessions == 2

Calls == 1..MaxCalls

Sessions == 1..NumSessions

-----------------------------------------------------------------------------
(* Queries: a query is text, modelled as a sequence of characters *)

Queries == {<<>>, <<" ">>, <<"a">>, <<"b">>}

\* str.strip() == "" : the query is empty or whitespace only
IsBlank(q) == \A i \in 1..Len(q) : q[i] = " "

NoQuery == <<"?">>

NoChunk == [kind |-> "none", query |-> NoQuery, seq |-> 0]

Last(s) == s[Len(s)]

-----------------------------------------------------------------------------
(* The research pipeline, ResearchManager().run(query) *)

\* a fresh manager object before its run is invoked
NewManager == [state |-> "new", query |-> NoQuery, pos |-> 0]

\* invoking run(query) on a manager object
PipelineInvoke(q) == [state |-> "running", query |-> q, pos |-> 0]

\* the n-th text the pipeline emits for a query: the report so far
PipelineChunk(q, n) == [kind |-> "report", query |-> q, seq |-> n]

\* the pipeline has another chunk to emit
PipelineCanYield(m) == m.state = "running" /\ m.pos < MaxChunks

\* the pipeline may complete: a non-empty query has produced a chunk by then
PipelineCanFinish(m) ==
    m.state = "running" /\ (m.pos >= 1 \/ IsBlank(m.query))

\* the pipeline may fail at any point while it runs
PipelineCanRaise(m) == m.state = "running"

-----------------------------------------------------------------------------
(* run(query), src/main.py lines 8-10 *)

\* a mutation: one module-level manager shared by every call
SharedManager(c) == 1

\* ResearchManager() is evaluated inside run: one new object per call
ManagerFor(c) == c

\* a mutation: leading whitespace of the query is stripped before forwarding
RECURSIVE StrippedQuery(_)
StrippedQuery(q) ==
    IF q # <<>> /\ q[1] = " " THEN StrippedQuery(Tail(q)) ELSE q

\* the argument run hands to the pipeline: its own parameter
ForwardedQuery(q) == q

\* a mutation: the chunk is appended to what is displayed
RenderAppended(old, value) == Append(old, value)

\* outputs=report: the yielded value becomes the region's whole content
Render(old, value) == <<value>>

\* the call a new event is given: the first one not yet made
NextCall == CHOOSE c \in Calls : pc[c] = "idle" /\ \A d \in Calls : d < c => pc[d] # "idle"

\* the sessions that have made a call; a session is numbered by its first event
OpenSessions == {sess[c] : c \in {d \in Calls : pc[d] # "idle"}}

StartCall(s, q) ==
    /\ \E c \in Calls : pc[c] = "idle"
    /\ s <= Cardinality(OpenSessions) + 1
    /\ pc' = [pc EXCEPT ![NextCall] = "created"]
    /\ arg' = [arg EXCEPT ![NextCall] = q]
    /\ sess' = [sess EXCEPT ![NextCall] = s]
    /\ UNCHANGED <<chunk, received, rendered, report, mgr, invoked, emitted>>
    /\ UNCHANGED emailVars

\* run_button.click(fn=run, inputs=query_textbox, outputs=report)
Click(s, q) == StartCall(s, q)

\* query_textbox.submit(fn=run, inputs=query_textbox, outputs=report)
Submit(s, q) == StartCall(s, q)

\* first step of the generator: ResearchManager().run(query) is evaluated
RunStart(c) ==
    /\ pc[c] = "created"
    /\ LET i == ManagerFor(c)
           q == ForwardedQuery(arg[c])
       IN /\ mgr' = [mgr EXCEPT ![i] = PipelineInvoke(q)]
          /\ invoked' = [invoked EXCEPT ![i] = Append(@, q)]
    /\ pc' = [pc EXCEPT ![c] = "awaiting"]
    /\ UNCHANGED <<arg, sess, chunk, received, rendered, report, emitted>>
    /\ UNCHANGED emailVars

\* async for chunk in ...: the pipeline emits and chunk is bound
RunReceive(c) ==
    /\ pc[c] = "awaiting"
    /\ LET i == ManagerFor(c)
           m == mgr[i]
           ch == PipelineChunk(m.query, m.pos + 1)
       IN /\ PipelineCanYield(m)
          /\ mgr' = [mgr EXCEPT ![i].pos = m.pos + 1]
          /\ emitted' = [emitted EXCEPT ![i] = Append(@, ch)]
          /\ chunk' = [chunk EXCEPT ![c] = ch]
    /\ pc' = [pc EXCEPT ![c] = "yielding"]
    /\ UNCHANGED <<arg, sess, received, rendered, report, invoked>>
    /\ UNCHANGED emailVars

\* yield chunk: the consumer gets the value and renders it into report
RunYield(c) ==
    /\ pc[c] = "yielding"
    /\ LET shown == Render(report[sess[c]], chunk[c])
       IN /\ report' = [report EXCEPT ![sess[c]] = shown]
          /\ rendered' = [rendered EXCEPT ![c] = Append(@, shown)]
    /\ received' = [received EXCEPT ![c] = Append(@, chunk[c])]
    /\ pc' = [pc EXCEPT ![c] = "awaiting"]
    /\ UNCHANGED <<arg, sess, chunk, mgr, invoked, emitted>>
    /\ UNCHANGED emailVars

\* the pipeline is exhausted: the async for ends and so does the generator
RunFinish(c) ==
    /\ pc[c] = "awaiting"
    /\ PipelineCanFinish(mgr[ManagerFor(c)])
    /\ mgr' = [mgr EXCEPT ![ManagerFor(c)].state = "finished"]
    /\ pc' = [pc EXCEPT ![c] = "done"]
    /\ UNCHANGED <<arg, sess, chunk, received, rendered, report, invoked, emitted>>
    /\ UNCHANGED emailVars

\* the pipeline raises: run has no handler, the exception leaves the generator
RunRaise(c) ==
    /\ pc[c] = "awaiting"
    /\ PipelineCanRaise(mgr[ManagerFor(c)])
    /\ mgr' = [mgr EXCEPT ![ManagerFor(c)].state = "failed"]
    /\ pc' = [pc EXCEPT ![c] = "raised"]
    /\ UNCHANGED <<arg, sess, chunk, received, rendered, report, invoked, emitted>>
    /\ UNCHANGED emailVars

PresenterInit ==
    /\ pc = [c \in Calls |-> "idle"]
    /\ arg = [c \in Calls |-> NoQuery]
    /\ sess = [c \in Calls |-> 1]
    /\ chunk = [c \in Calls |-> NoChunk]
    /\ received = [c \in Calls |-> <<>>]
    /\ rendered = [c \in Calls |-> <<>>]
    /\ report = [s \in Sessions |-> <<>>]
    /\ mgr = [i \in Calls |-> NewManager]
    /\ invoked = [i \in Calls |-> <<>>]
    /\ emitted = [i \in Calls |-> <<>>]

Next ==
    \/ \E s \in Sessions, q \in Queries : Click(s, q)
    \/ \E s \in Sessions, q \in Queries : Submit(s, q)
    \/ \E c \in Calls : RunStart(c)
    \/ \E c \in Calls : RunReceive(c)
    \/ \E c \in Calls : RunYield(c)
    \/ \E c \in Calls : RunFinish(c)
    \/ \E c \in Calls : RunRaise(c)

-----------------------------------------------------------------------------
(* send_email(subject, html_body), src/my_agents/email_agent.py lines 6-17 *)

EnvKeys == {"RESEND_API_KEY", "RESEND_FROM_EMAIL", "RESEND_TO_EMAIL"}

EnvValues == {"v1", "v2"}

\* a key that os.environ does not hold
Unset == "<unset>"

Subjects == {"Report", "Findings"}

Bodies == {"<h1>r</h1>", "<p>r</p>"}

NoParams == [from |-> Unset, to |-> Unset, subject |-> "", html |-> ""]

NoOutcome == [kind |-> "none", status |-> "", reason |-> ""]

\* a mutation: os.environ.get(k), which never raises
NeverKeyError(e, k) == FALSE

\* os.environ[k] raises KeyError when k is not set
KeyError(e, k) == e[k] = Unset

AllPresent(e) == \A k \in EnvKeys : e[k] # Unset

\* a mutation: sender and recipient exchanged
MakeParamsSwapped(e, s, h) ==
    [from |-> e["RESEND_TO_EMAIL"], to |-> e["RESEND_FROM_EMAIL"],
     subject |-> s, html |-> h]

\* the dict literal of lines 10-15
MakeParams(e, s, h) ==
    [from |-> e["RESEND_FROM_EMAIL"], to |-> e["RESEND_TO_EMAIL"],
     subject |-> s, html |-> h]

\* the caller exception: what leaves send_email when a statement raises
Raised(exc) == [kind |-> "raise", status |-> "", reason |-> exc]

\* the agent (or any caller) invokes the tool
Invoke(s, h) ==
    /\ epc = "idle"
    /\ epc' = "line9"
    /\ subject' = s
    /\ html_body' = h
    /\ UNCHANGED <<env, api_key, params, sends, outcome>>
    /\ UNCHANGED presenterVars

\* line 9: resend.api_key = os.environ["RESEND_API_KEY"]
ReadApiKey ==
    /\ epc = "line9"
    /\ IF KeyError(env, "RESEND_API_KEY")
       THEN /\ epc' = "raised"
            /\ outcome' = Raised("KeyError")
            /\ UNCHANGED api_key
       ELSE /\ epc' = "line10"
            /\ api_key' = env["RESEND_API_KEY"]
            /\ UNCHANGED outcome
    /\ UNCHANGED <<subject, html_body, env, params, sends>>
    /\ UNCHANGED presenterVars

\* lines 10-15: params = {"from": os.environ[...], "to": os.environ[...], ...}
BuildParams ==
    /\ epc = "line10"
    /\ IF KeyError(env, "RESEND_FROM_EMAIL") \/ KeyError(env, "RESEND_TO_EMAIL")
       THEN /\ epc' = "raised"
            /\ outcome' = Raised("KeyError")
            /\ UNCHANGED params
       ELSE /\ epc' = "line16"
            /\ params' = MakeParams(env, subject, html_body)
            /\ UNCHANGED outcome
    /\ UNCHANGED <<subject, html_body, env, api_key, sends>>
    /\ UNCHANGED presenterVars

\* line 16: resend.Emails.send(params) returns
SendReturns ==
    /\ epc = "line16"
    /\ sends' = Append(sends, [request |-> params, key |-> api_key, result |-> "ok"])
    /\ epc' = "line17"
    /\ UNCHANGED <<subject, html_body, env, api_key, params, outcome>>
    /\ UNCHANGED presenterVars

\* a mutation: a failed send is attempted again
SendRaisesRetried ==
    /\ epc = "line16"
    /\ Len(sends) < 3
    /\ sends' = Append(sends, [request |-> params, key |-> api_key, result |-> "raised"])
    /\ UNCHANGED <<epc, subject, html_body, env, api_key, params, outcome>>
    /\ UNCHANGED presenterVars

\* line 16: resend.Emails.send(params) raises; nothing in send_email catches it
SendRaises ==
    /\ epc = "line16"
    /\ sends' = Append(sends, [request |-> params, key |-> api_key, result |-> "raised"])
    /\ epc' = "raised"
    /\ outcome' = Raised("TransportError")
    /\ UNCHANGED <<subject, html_body, env, api_key, params>>
    /\ UNCHANGED presenterVars

\* line 17: return {"status": "success"}
ReturnSuccess ==
    /\ epc = "line17"
    /\ epc' = "returned"
    /\ outcome' = [kind |-> "return", status |-> "success", reason |-> ""]
    /\ UNCHANGED <<subject, html_body, env, api_key, params, sends>>
    /\ UNCHANGED presenterVars

\* the caller has the outcome; the invocation's frame is gone
CallerTakes ==
    /\ epc \in {"returned", "raised"}
    /\ epc' = "idle"
    /\ subject' = ""
    /\ html_body' = ""
    /\ params' = NoParams
    /\ sends' = <<>>
    /\ outcome' = NoOutcome
    /\ UNCHANGED <<env, api_key>>
    /\ UNCHANGED presenterVars

\* the process environment changes between invocations
SetEnv(k, v) ==
    /\ epc = "idle"
    /\ env' = [env EXCEPT ![k] = v]
    /\ UNCHANGED <<epc, subject, html_body, api_key, params, sends, outcome>>
    /\ UNCHANGED presenterVars

EmailInit ==
    /\ epc = "idle"
    /\ subject = ""
    /\ html_body = ""
    /\ env = [k \in EnvKeys |-> Unset]
    /\ api_key = Unset
    /\ params = NoParams
    /\ sends = <<>>
    /\ outcome = NoOutcome

EmailNext ==
    \/ \E s \in Subjects, h \in Bodies : Invoke(s, h)
    \/ ReadApiKey
    \/ BuildParams
    \/ SendReturns
    \/ SendRaises
    \/ ReturnSuccess
    \/ CallerTakes
    \/ \E k \in EnvKeys, v \in EnvValues \cup {Unset} : SetEnv(k, v)

-----------------------------------------------------------------------------
(* Specifications *)

Init == PresenterInit /\ EmailInit

Spec == Init /\ [][Next]_vars

EmailSpec == Init /\ [][EmailNext]_vars

-----------------------------------------------------------------------------
(* Properties of the presenter, checked under Spec *)

\* C1: whenever the pipeline of a call has raised, the call's stream has
\* ended without an exception reaching the consumer, and the last element
\* the consumer received is a chunk describing the failure.
C1_FailureSurfacedAsChunk ==
    \A c \in Calls :
        (pc[c] \notin {"idle", "created"} /\ mgr[ManagerFor(c)].state = "failed") =>
            /\ pc[c] = "done"
            /\ received[c] # <<>>
            /\ Last(received[c]).kind = "failure"

\* C5: once the stream of a call with a non-empty query has ended, it ended
\* normally, at least one chunk was delivered, and the last delivered chunk
\* is the final report, the last chunk of the completed pipeline.
C5_NonEmptyFiniteEndsWithFinalReport ==
    \A c \in Calls :
        (pc[c] \in {"done", "raised"} /\ ~IsBlank(arg[c])) =>
            /\ pc[c] = "done"
            /\ received[c] # <<>>
            /\ mgr[ManagerFor(c)].state = "finished"
            /\ Last(received[c]) = Last(emitted[ManagerFor(c)])

\* C6: for every call and every k, the report region's content right after
\* the k-th render of that call is exactly the k-th chunk its pipeline
\* emitted and nothing else; every emitted chunk is rendered before the next
\* one is requested (none dropped, duplicated, added or reordered).
C6_DisplayIsKthChunk ==
    \A c \in Calls :
        /\ Len(rendered[c]) = Len(received[c])
        /\ Len(emitted[ManagerFor(c)]) - Len(rendered[c])
              = (IF pc[c] = "yielding" THEN 1 ELSE 0)
        /\ \A k \in 1..Len(rendered[c]) :
              rendered[c][k] = <<emitted[ManagerFor(c)][k]>>

\* C6 witness: a call has rendered two chunks and the region shows the second
C6_Witness ==
    \E c \in Calls :
        /\ Len(rendered[c]) = 2
        /\ report[sess[c]] = <<PipelineChunk(arg[c], 2)>>
        /\ rendered[c][1] = <<PipelineChunk(arg[c], 1)>>

\* C8: two calls that have been made never drive the same pipeline instance,
\* and the k-th value a call's consumer received is the k-th chunk produced
\* for that call's own query, under every interleaving of the calls.
C8_StreamsIsolated ==
    \A c \in Calls :
        /\ \A k \in 1..Len(received[c]) : received[c][k] = PipelineChunk(arg[c], k)
        /\ \A d \in Calls :
              (c # d /\ pc[c] # "idle" /\ pc[d] # "idle")
                  => ManagerFor(c) # ManagerFor(d)

\* C8 witness: two sessions stream different queries at the same time and
\* each has received a chunk while the other is still in progress
C8_Witness ==
    /\ pc[1] = "awaiting" /\ pc[2] = "yielding"
    /\ sess[1] # sess[2]
    /\ arg[1] = <<"a">> /\ arg[2] = <<"b">>
    /\ Len(received[1]) = 1 /\ Len(received[2]) = 1

\* C9: a call with an empty or whitespace-only query has invoked no pipeline
\* before its first step and, from its first step on, has invoked its
\* pipeline exactly once, with the query as it was given.
C9_BlankQueryPassedThroughOnce ==
    \A c \in Calls :
        IsBlank(arg[c]) =>
            IF pc[c] \in {"idle", "created"}
            THEN invoked[ManagerFor(c)] = <<>>
            ELSE invoked[ManagerFor(c)] = <<arg[c]>>

\* C9 witness: a whitespace-only call and an empty call have both ended
C9_Witness ==
    /\ arg[1] = <<" ">> /\ pc[1] \in {"done", "raised"}
    /\ arg[2] = <<>> /\ pc[2] \in {"done", "raised"}
    /\ invoked[ManagerFor(1)] = << <<" ">> >>

-----------------------------------------------------------------------------
(* Properties of send_email, checked under EmailSpec *)

\* C2: an invocation never makes a second transport call, and an invocation
\* that ended with all three configuration values present (by returning or
\* by raising) made exactly one.
C2_ExactlyOneTransportCall ==
    /\ Len(sends) <= 1
    /\ (AllPresent(env) /\ epc \in {"line17", "returned", "raised"})
          => Len(sends) = 1

\* C2 witness: with the configuration complete the one transport call raised
C2_Witness ==
    /\ AllPresent(env)
    /\ epc = "raised"
    /\ Len(sends) = 1
    /\ sends[1].result = "raised"

\* C3: when the transport call of an invocation has raised, the invocation
\* returns a status object {status: "failure", reason: ...} to its caller.
C3_TransportFailureReturnedAsStatus ==
    (sends # <<>> /\ Last(sends).result = "raised") =>
        /\ outcome.kind = "return"
        /\ outcome.status = "failure"
        /\ outcome.reason # ""

\* C4: while a configuration value is missing, an invocation makes no
\* transport call, never returns success, never gets past building the
\* request, and ends by raising KeyError.
C4_MissingConfigFailsLoudly ==
    (~AllPresent(env) /\ epc # "idle") =>
        /\ sends = <<>>
        /\ outcome.status # "success"
        /\ epc \in {"line9", "line10", "raised"}
        /\ (epc = "raised" => outcome = Raised("KeyError"))

\* C4 witness: the key is present, the recipient is missing, KeyError is raised
C4_Witness ==
    /\ epc = "raised"
    /\ env["RESEND_API_KEY"] # Unset
    /\ env["RESEND_FROM_EMAIL"] # Unset
    /\ env["RESEND_TO_EMAIL"] = Unset
    /\ outcome.reason = "KeyError"
    /\ sends = <<>>

\* C10: when the invocation has returned success, its single transport call
\* returned without raising and was handed the caller's subject and
\* html_body together with the sender and recipient the environment holds.
C10_SuccessOnlyAfterFaithfulSend ==
    outcome.status = "success" =>
        /\ Len(sends) = 1
        /\ sends[1].result = "ok"
        /\ sends[1].request.subject = subject
        /\ sends[1].request.html = html_body
        /\ sends[1].request.from = env["RESEND_FROM_EMAIL"]
        /\ sends[1].request.to = env["RESEND_TO_EMAIL"]

\* C10 witness: success returned with distinct sender and recipient
C10_Witness ==
    /\ epc = "returned"
    /\ outcome.status = "success"
    /\ env["RESEND_FROM_EMAIL"] = "v1"
    /\ env["RESEND_TO_EMAIL"] = "v2"
    /\ subject = "Findings"
    /\ html_body = "<p>r</p>"

====
